---- MODULE Spec2Model ----
(***************************************************************************)
(* Assessment orchestration of the MentalHealth application: the patient   *)
(* routes (app/routes/patient.py), the assessment and PHQ services          *)
(* (app/services/assesment.py, app/services/phq.py), the chat service       *)
(* (app/services/openai_chat.py) and the emotion storage service            *)
(* (app/services/emotion_storage.py).                                       *)
(*                                                                         *)
(* A database row is a record; a table is a sequence of rows whose index   *)
(* is the primary key.  The uuid session_id of an assessment is modelled   *)
(* by the row's primary key (both are unique per row).  Timestamps are     *)
(* abstracted to "set / not set".  The Flask session of a user is the      *)
(* record fsession[u].                                                      *)
(***************************************************************************)
EXTENDS Integers, Sequences, FiniteSets, TLC

\* ----------------------------------------------------------------- bounds
NumUsers == 2
MaxSessions == 2
MaxExchanges == 2
MaxMedia == 2
MaxOpenRows == 4
MaxClock == 1
MaxRows == 3
NumQuestions == 9
MaxHistory == 20
MaxCategories == 2
MaxQuestionsPerCategory == 3
BandFrom == 10

\* ------------------------------------------------- configuration (settings)
\* openquestion_max_exchanges, the configured cap on exchange pairs
ConfiguredMaxExchanges == 1
\* scale_min / scale_max of the PHQ scale
scale_min == 0
scale_max == 3

None == "None"
NoScore == -1
NoSession == 0

Users == 1..NumUsers

VARIABLES
    assessments,      \* table assessment
    phq9_responses,   \* table phq9_response
    open_responses,   \* table open_question_response
    emotion_data,     \* table emotion_data
    files,            \* the files present under the upload directory
    fsession,         \* the Flask session of every user
    generation,       \* the streaming generator of every user's chat_stream
    response,         \* what the last handler returned to its caller
    workers,          \* concurrent save_phq_response calls in progress
    submitted,        \* history: the last submission per response key
    settings,         \* table app_setting: the configuration an admin edits
    page              \* the question page last rendered for every user

vars == <<assessments, phq9_responses, open_responses, emotion_data, files,
          fsession, generation, response, workers, submitted, settings,
          page>>

\* ---------------------------------------------------------------- helpers
Range(s) == {s[i] : i \in 1..Len(s)}

RECURSIVE SumSeq(_)
SumSeq(s) == IF s = <<>> THEN 0 ELSE Head(s) + SumSeq(Tail(s))

SelectIdx(s, Test(_)) == {i \in 1..Len(s) : Test(s[i])}

Min(S) == CHOOSE x \in S : \A y \in S : x <= y

\* ------------------------------------------------------------- Assessment
\* Assessment(user_id=..., session_id=..., started_at=...) with the column
\* defaults of the model
NewAssessment(user_id) ==
    [user_id |-> user_id,
     status |-> "in_progress",
     phq9_completed |-> FALSE,
     open_questions_completed |-> FALSE,
     consent_agreed |-> FALSE,
     camera_verified |-> FALSE,
     first_assessment_type |-> None,
     first_assessment_started_at |-> FALSE,
     assessment_order |-> None,
     completed_at |-> FALSE,
     phq9_score |-> NoScore,
     phq9_severity |-> None]

\* Assessment.query.filter_by(session_id=..., user_id=...).first(): the
\* primary key of the row, or NoSession
FindAssessment(tbl, session_id, user_id) ==
    IF session_id \in 1..Len(tbl) /\ tbl[session_id].user_id = user_id
    THEN session_id ELSE NoSession

\* Assessment.query.filter_by(user_id=..., status='in_progress').all()
InProgressOf(tbl, user_id) ==
    {i \in 1..Len(tbl) : tbl[i].user_id = user_id /\ tbl[i].status = "in_progress"}

\* AssessmentService.create_assessment_session
create_assessment_session(tbl, user_id) == Append(tbl, NewAssessment(user_id))

\* Assessment.mark_first_assessment
mark_first_assessment(a, assessment_type) ==
    IF a.first_assessment_type = None /\ ~a.first_assessment_started_at
    THEN [a EXCEPT !.first_assessment_type = assessment_type,
                   !.first_assessment_started_at = TRUE]
    ELSE a

\* Assessment.complete_assessment_type: sets the module's flag and, when both
\* flags are set, completed_at; the status column is not written
complete_assessment_type(a, assessment_type) ==
    LET b == IF assessment_type = "phq9"
             THEN [a EXCEPT !.phq9_completed = TRUE]
             ELSE IF assessment_type = "open_questions"
             THEN [a EXCEPT !.open_questions_completed = TRUE]
             ELSE a
    IN IF b.phq9_completed /\ b.open_questions_completed
       THEN [b EXCEPT !.completed_at = TRUE]
       ELSE b

\* AssessmentService.record_consent (the row is known to exist)
record_consent(tbl, id) ==
    [tbl EXCEPT ![id].consent_agreed = TRUE]

\* AssessmentService.record_camera_verification (the row is known to exist)
record_camera_verification(tbl, id) ==
    [tbl EXCEPT ![id].camera_verified = TRUE]

\* AssessmentService.start_assessment_type (the row is known to exist)
start_assessment_type(tbl, id, assessment_type) ==
    [tbl EXCEPT ![id] = mark_first_assessment(tbl[id], assessment_type)]

\* ------------------------------------------------------------ OrderBalancer
\* a balancer that always draws at random
unforced_assessment_order(tbl) == {"phq_first", "questions_first"}

\* a balancer that draws at random unless the structured-first share is
\* above 65% or below 35%
wide_band_assessment_order(tbl) ==
    LET phq9_first_count ==
            Cardinality({i \in 1..Len(tbl) : tbl[i].first_assessment_type = "phq9"})
        open_questions_first_count ==
            Cardinality({i \in 1..Len(tbl) :
                            tbl[i].first_assessment_type = "open_questions"})
        total_assessments == phq9_first_count + open_questions_first_count
    IN IF total_assessments = 0 THEN {"phq_first", "questions_first"}
       ELSE IF 100 * phq9_first_count > 65 * total_assessments
            THEN {"questions_first"}
       ELSE IF 100 * phq9_first_count < 35 * total_assessments
            THEN {"phq_first"}
       ELSE {"phq_first", "questions_first"}

\* AssessmentBalanceService.get_next_assessment_order: the set of orders the
\* call can return (random.choice is a nondeterministic choice)
get_next_assessment_order(tbl) ==
    LET phq9_first_count ==
            Cardinality({i \in 1..Len(tbl) : tbl[i].first_assessment_type = "phq9"})
        open_questions_first_count ==
            Cardinality({i \in 1..Len(tbl) :
                            tbl[i].first_assessment_type = "open_questions"})
        total_assessments == phq9_first_count + open_questions_first_count
    IN IF total_assessments = 0 THEN {"phq_first", "questions_first"}
       ELSE IF 100 * phq9_first_count > 55 * total_assessments
            THEN {"questions_first"}
       ELSE IF 100 * phq9_first_count < 45 * total_assessments
            THEN {"phq_first"}
       ELSE {"phq_first", "questions_first"}

\* a balancer that lets the failure of the count query through
failed_count_raises(tbl) == {"error"}

\* AssessmentBalanceService.get_next_assessment_order when a count query
\* raises: the except branch draws at random
get_next_assessment_order_on_error(tbl) == {"phq_first", "questions_first"}

\* ------------------------------------------------------- QuestionPoolEngine
\* a phq_category_<n>_questions value: unset, a JSON list of strings, a JSON
\* value that is no list, or text that is no JSON (read as comma separated)
NoData == [kind |-> "unset", items |-> <<>>]
JsonList(items) == [kind |-> "json_list", items |-> items]
JsonValue(text) == [kind |-> "json_value", items |-> <<text>>]
CommaText(pieces) == [kind |-> "comma_text", items |-> pieces]

\* the settings of a fresh installation with one category of two questions
DefaultSettings ==
    [openquestion_prompt |-> "prompt",
     randomize_questions |-> FALSE,
     categories |-> [cat_num \in 1..MaxCategories |->
                        IF cat_num = 1
                        THEN [exists |-> TRUE,
                              questions_data |-> JsonList(<<"q1a", "q1b">>)]
                        ELSE [exists |-> FALSE, questions_data |-> NoData]]]

\* a stored value that is a JSON string with a comma in it
QuotedPair == "\"qa, qb\""

\* str.strip() on the strings the model uses
strip(q) ==
    IF q = " " THEN ""
    ELSE IF q = " qb" THEN "qb"
    ELSE IF q = " qb\"" THEN "qb\""
    ELSE q

\* str.split(',') on the strings the model uses
split(text) == IF text = QuotedPair THEN <<"\"qa", " qb\"">> ELSE <<text>>

\* a parse that reads every value that is no JSON list as comma separated
comma_first_parse_questions(questions_data) ==
    IF questions_data.kind = "comma_text"
    THEN SelectSeq([i \in 1..Len(questions_data.items) |->
                       strip(questions_data.items[i])],
                   LAMBDA q : strip(q) # "")
    ELSE IF questions_data.kind = "json_value"
    THEN [i \in 1..Len(split(questions_data.items[1])) |->
             strip(split(questions_data.items[1])[i])]
    ELSE questions_data.items

\* json.loads(questions_data), or the comma split when that raises
parse_questions(questions_data) ==
    IF questions_data.kind = "comma_text"
    THEN SelectSeq([i \in 1..Len(questions_data.items) |->
                       strip(questions_data.items[i])],
                   LAMBDA q : strip(q) # "")
    ELSE questions_data.items

\* the questions of category cat_num that get_phq_settings keeps: none
\* unless phq_category_<n>_exists is '1' and there is data, and then those
\* that are not blank
category_questions(cat_num) ==
    IF settings.categories[cat_num].exists
       /\ settings.categories[cat_num].questions_data.kind # "unset"
    THEN SelectSeq(parse_questions(settings.categories[cat_num].questions_data),
                   LAMBDA q : strip(q) # "")
    ELSE <<>>

\* a pool that keeps one question of every category
first_question_from(cat_num) ==
    [k \in 1..Cardinality({c \in cat_num..MaxCategories :
                              category_questions(c) # <<>>}) |->
        LET c == CHOOSE c \in cat_num..MaxCategories :
                     /\ category_questions(c) # <<>>
                     /\ Cardinality({d \in cat_num..c :
                                        category_questions(d) # <<>>}) = k
        IN [category |-> c,
            question |-> category_questions(c)[1],
            question_index_in_category |-> 0]]

CategoryQuestions == [cat_num \in 1..MaxCategories |-> category_questions(cat_num)]

\* PHQService.get_phq_settings, the question list it builds before any
\* shuffle: every question of every active category, by category number and
\* then by position in the category
RECURSIVE all_questions_from(_)
all_questions_from(cat_num) ==
    IF cat_num > Len(CategoryQuestions) THEN <<>>
    ELSE [question_index \in 1..Len(CategoryQuestions[cat_num]) |->
             [category |-> cat_num,
              question |-> CategoryQuestions[cat_num][question_index],
              question_index_in_category |-> question_index - 1]]
         \o all_questions_from(cat_num + 1)

\* random.shuffle(all_questions): any order of the same entries
Shuffles(all_questions) ==
    {[i \in 1..Len(all_questions) |-> all_questions[f[i]]] :
        f \in Permutations(1..Len(all_questions))}

\* PHQService.get_phq_settings: the question lists it can return
get_phq_settings ==
    IF settings.randomize_questions THEN Shuffles(all_questions_from(1))
    ELSE {all_questions_from(1)}

\* PHQService.create_phq_session: the phq_data dict kept in the Flask session
create_phq_session(questions) == [present |-> TRUE, questions |-> questions]

NoPhqData == [present |-> FALSE, questions |-> <<>>]

\* no question page was rendered yet
NoPage == [present |-> FALSE, question_index |-> 0,
           question |-> [category |-> 0, question |-> None,
                         question_index_in_category |-> 0]]

\* render_template('patient/phq9_question.html', question=current_question,
\* question_index=question_index, ...)
QuestionPage(question_index, current_question) ==
    [present |-> TRUE, question_index |-> question_index,
     question |-> current_question]

NoneIdx == -1
NoTime == -1

\* `question_index_in_category or 0`
IdxOrZero(question_index_in_category) ==
    IF question_index_in_category = NoneIdx THEN 0 ELSE question_index_in_category

\* the lookup of PHQService.save_phq_response:
\* PHQ9Response.query.filter_by(assessment_id, question_number,
\* question_index_in_category).first(); the primary key of the row found,
\* or 0 when there is none
find_existing_response(rows, assessment_id, category_number, question_index_in_category) ==
    LET hits == {i \in 1..Len(rows) :
                    /\ rows[i].assessment_id = assessment_id
                    /\ rows[i].question_number = category_number
                    /\ rows[i].question_index_in_category =
                           IdxOrZero(question_index_in_category)}
    IN IF hits = {} THEN 0 ELSE Min(hits)

\* a write that never updates the row found
insert_phq_response(rows, existing_response, assessment_id, category_number, response_value, question_text, response_time_ms, question_index_in_category) ==
    Append(rows,
           [assessment_id |-> assessment_id,
            question_number |-> category_number,
            question_index_in_category |->
                IdxOrZero(question_index_in_category),
            question_text |-> question_text,
            response_value |-> response_value,
            response_time_ms |-> response_time_ms])

\* the update-or-insert of PHQService.save_phq_response, given the result
\* of its lookup
write_phq_response(rows, existing_response, assessment_id, category_number, response_value, question_text, response_time_ms, question_index_in_category) ==
    IF existing_response # 0
    THEN [rows EXCEPT ![existing_response].response_value = response_value,
                      ![existing_response].response_time_ms = response_time_ms,
                      ![existing_response].question_text = question_text]
    ELSE Append(rows,
                [assessment_id |-> assessment_id,
                 question_number |-> category_number,
                 question_index_in_category |->
                     IdxOrZero(question_index_in_category),
                 question_text |-> question_text,
                 response_value |-> response_value,
                 response_time_ms |-> response_time_ms])

\* PHQService.save_phq_response for an assessment that exists
save_phq_response(rows, assessment_id, category_number, response_value, question_text, response_time_ms, question_index_in_category) ==
    write_phq_response(rows,
        find_existing_response(rows, assessment_id, category_number,
                               question_index_in_category),
        assessment_id, category_number, response_value, question_text,
        response_time_ms, question_index_in_category)

\* PHQ9Response.query.filter_by(assessment_id=...).all()
responses_of(rows, assessment_id) ==
    SelectSeq(rows, LAMBDA r : r.assessment_id = assessment_id)

\* a total that counts one response per category
once_per_category_total(responses) ==
    SumSeq([i \in 1..Len(responses) |->
               IF \E j \in 1..(i - 1) :
                      responses[j].question_number = responses[i].question_number
               THEN 0
               ELSE responses[i].response_value])

\* sum(response.response_value for response in responses)
RECURSIVE total_score_of(_)
total_score_of(responses) ==
    IF responses = <<>> THEN 0
    ELSE Head(responses).response_value + total_score_of(Tail(responses))

\* the severity ladder of PHQService.calculate_phq_score
severity_of(total_score) ==
    IF total_score >= 20 THEN "severe"
    ELSE IF total_score >= 15 THEN "moderately_severe"
    ELSE IF total_score >= 10 THEN "moderate"
    ELSE IF total_score >= 5 THEN "mild"
    ELSE "minimal"

\* the severity ladder of AssessmentService.complete_phq9_assessment
completion_severity_of(total_score) ==
    IF total_score >= 20 THEN "severe"
    ELSE IF total_score >= 15 THEN "moderate"
    ELSE IF total_score >= 10 THEN "mild"
    ELSE IF total_score >= 5 THEN "mild"
    ELSE "minimal"

\* AssessmentService.complete_phq9_assessment (the row is known to exist)
complete_phq9_assessment(tbl, rows, id) ==
    LET total_score == total_score_of(responses_of(rows, id))
        scored == [tbl[id] EXCEPT
                      !.phq9_score = total_score,
                      !.phq9_severity = completion_severity_of(total_score)]
    IN [tbl EXCEPT ![id] = complete_assessment_type(scored, "phq9")]

\* PHQService.calculate_phq_score (the row is known to exist): the
\* assessment table after the call and the results dict it returns
calculate_phq_score(tbl, rows, id) ==
    LET responses == responses_of(rows, id)
        total_score == total_score_of(responses)
        severity == severity_of(total_score)
        scored == [tbl EXCEPT ![id].phq9_score = total_score,
                              ![id].phq9_severity = severity]
    IN [assessments |-> complete_phq9_assessment(scored, rows, id),
        results |-> [total_score |-> total_score,
                     severity |-> severity,
                     total_questions |-> Len(responses),
                     total_categories |->
                         Cardinality({responses[i].question_number :
                                         i \in 1..Len(responses)})]]

\* ------------------------------------------------ ConversationContextManager
NoChat == [present |-> FALSE, system_prompt |-> None, message_history |-> <<>>,
           conversation_history |-> <<>>, exchange_count |-> 0]

\* the openquestion_prompt setting
openquestion_prompt == settings.openquestion_prompt

\* a start that accepts any configured prompt
unchecked_chat_settings == TRUE

\* OpenAIChatService.get_chat_settings: it raises unless openquestion_prompt
\* is configured and not empty
chat_settings_configured == settings.openquestion_prompt # ""

\* OpenAIChatService.create_chat_session: the serializable chat_session dict
create_chat_session ==
    [present |-> TRUE,
     system_prompt |-> openquestion_prompt,
     message_history |-> <<[type |-> "system", content |-> openquestion_prompt]>>,
     conversation_history |->
         <<[type |-> "system", content |-> openquestion_prompt]>>,
     exchange_count |-> 0]

\* a request that reads the prompt from the current configuration
live_prompt_streaming_response(chat_session, user_message) ==
    <<[type |-> "system", content |-> settings.openquestion_prompt]>>
        \o SelectSeq(chat_session.message_history,
                     LAMBDA msg : msg.type \in {"human", "ai"})
        \o <<[type |-> "human", content |-> user_message]>>

\* OpenAIChatService.generate_streaming_response: the messages handed to
\* the provider: the stored system prompt, every human and ai entry of
\* message_history, then user_message
generate_streaming_response(chat_session, user_message) ==
    <<[type |-> "system", content |-> chat_session.system_prompt]>>
        \o SelectSeq(chat_session.message_history,
                     LAMBDA msg : msg.type \in {"human", "ai"})
        \o <<[type |-> "human", content |-> user_message]>>

\* the conversation_metadata of a row that holds no conversation
NoMetadata == [system_prompt |-> None, conversation_history |-> <<>>,
               message_history |-> <<>>, total_exchanges |-> 0]

\* rows for the subject turns only
human_exchange_rows(assessment_id, conversation_history) ==
    [k \in 1..Cardinality({i \in 1..Len(conversation_history) :
                              conversation_history[i].type = "human"}) |->
        LET i == CHOOSE i \in 1..Len(conversation_history) :
                     /\ conversation_history[i].type = "human"
                     /\ Cardinality({j \in 1..i :
                            conversation_history[j].type = "human"}) = k
        IN [assessment_id |-> assessment_id,
            kind |-> "exchange",
            exchange |-> ((i - 1) \div 2) + 1,
            type |-> "human",
            response_text |-> conversation_history[i].content,
            metadata |-> NoMetadata]]

\* the rows OpenAIChatService.save_conversation adds: the whole conversation
\* as one record, then one row per human or ai entry of conversation_history,
\* entry i (from 0) labelled "Exchange i//2 + 1"
exchange_rows(assessment_id, conversation_history) ==
    LET picked == {i \in 1..Len(conversation_history) :
                      conversation_history[i].type \in {"human", "ai"}}
        RECURSIVE rows_from(_)
        rows_from(i) ==
            IF i > Len(conversation_history) THEN <<>>
            ELSE (IF i \in picked
                  THEN <<[assessment_id |-> assessment_id,
                          kind |-> "exchange",
                          exchange |-> ((i - 1) \div 2) + 1,
                          type |-> conversation_history[i].type,
                          response_text |-> conversation_history[i].content,
                          metadata |-> NoMetadata]>>
                  ELSE <<>>) \o rows_from(i + 1)
    IN rows_from(1)

save_conversation(rows, assessment_id, conversation_data) ==
    Append(rows, [assessment_id |-> assessment_id,
                  kind |-> "conversation",
                  exchange |-> conversation_data.exchange_count,
                  type |-> "all",
                  response_text |-> "Complete LangChain Conversation",
                  metadata |->
                      [system_prompt |-> conversation_data.system_prompt,
                       conversation_history |->
                           conversation_data.conversation_history,
                       message_history |-> conversation_data.message_history,
                       total_exchanges |-> conversation_data.exchange_count]])
    \o exchange_rows(assessment_id, conversation_data.conversation_history)

\* ------------------------------------------------------------ MediaCorrelator
\* EmotionStorageService.get_storage_path and the file name under it: the
\* path is made of the session, the module, the kind and the clock reading
storage_file_path(session_id, assessment_type, media_type, now) ==
    <<session_id, assessment_type, media_type, now>>

\* what becomes of the bytes of a capture: written whole, refused because the
\* video is over max_file_size_mb, or the write raises
WriteOutcomes == {"written", "too_large", "write_failed"}

\* the row of a capture
EmotionData(assessment_id, assessment_type, media_type, file_path) ==
    [assessment_id |-> assessment_id,
     assessment_type |-> assessment_type,
     media_type |-> media_type,
     file_path |-> file_path]

\* the disk after the write of a capture: a write that raises leaves no
\* whole file
write_file(disk, file_path, outcome) ==
    IF outcome = "written" THEN disk \cup {file_path} ELSE disk

\* the row is added before the bytes are written
save_image_record_first(rows, assessment_id, assessment_type, file_path, outcome) ==
    Append(rows, EmotionData(assessment_id, assessment_type, "image", file_path))

\* EmotionStorageService.save_video: the emotion_data rows after the call;
\* the size check and the write come before db.session.add, and an
\* exception rolls back
save_video(rows, assessment_id, assessment_type, file_path, outcome) ==
    IF outcome = "written"
    THEN Append(rows, EmotionData(assessment_id, assessment_type, "video", file_path))
    ELSE rows

\* EmotionStorageService.save_image: the same, without a size check; a
\* failure of the optimisation is caught and the row is still added
save_image(rows, assessment_id, assessment_type, file_path, outcome) ==
    IF outcome = "written"
    THEN Append(rows, EmotionData(assessment_id, assessment_type, "image", file_path))
    ELSE rows

\* EmotionStorageService.get_session_files: the rows of the session, or
\* none when the session is not found
get_session_files(tbl, rows, session_id, user_id) ==
    LET id == FindAssessment(tbl, session_id, user_id)
    IN IF id = NoSession THEN <<>>
       ELSE SelectSeq(rows, LAMBDA emotion : emotion.assessment_id = id)

\* a validation that takes every record for valid
validate_nothing(tbl, rows, disk, session_id, user_id) ==
    LET session_files == get_session_files(tbl, rows, session_id, user_id)
    IN [total_files |-> Len(session_files),
        valid_files |-> Len(session_files),
        missing_files |-> 0,
        missing_file_details |-> <<>>,
        is_valid |-> TRUE]

\* EmotionStorageService.validate_session_files
validate_session_files(tbl, rows, disk, session_id, user_id) ==
    LET session_files == get_session_files(tbl, rows, session_id, user_id)
        missing == SelectSeq(session_files,
                             LAMBDA file_info : file_info.file_path \notin disk)
    IN [total_files |-> Len(session_files),
        valid_files |-> Len(session_files) - Len(missing),
        missing_files |-> Len(missing),
        missing_file_details |-> missing,
        is_valid |-> Len(missing) = 0]

\* EmotionStorageService.cleanup_session_files: the files left on disk; the
\* emotion_data rows are kept
cleanup_session_files(disk, rows, assessment_id) ==
    disk \ {rows[i].file_path : i \in {j \in 1..Len(rows) :
                                          rows[j].assessment_id = assessment_id}}

\* EmotionStorageService.cleanup_session_files when the unlink of the
\* fail_at-th row of the session raises (0: none raises): the files of the
\* rows before it are gone, the exception is logged and the rest is left
cleanup_session_files_until(disk, rows, assessment_id, fail_at) ==
    LET mine == SelectSeq(rows, LAMBDA emotion : emotion.assessment_id = assessment_id)
        done == IF fail_at = 0 THEN Len(mine) ELSE fail_at - 1
    IN disk \ {mine[k].file_path : k \in 1..done}

\* the row that stands where a deleted assessment row was: the primary key
\* is not given to another row
DeletedAssessment == [NewAssessment(0) EXCEPT !.status = "deleted"]

\* db.session.delete(assessment) with the delete cascade of the
\* relationships: the child rows that are left in a table
cascade_delete(rows, assessment_id) ==
    SelectSeq(rows, LAMBDA row : row.assessment_id # assessment_id)

\* ---------------------------------------------------------------- the state
NoResults == [total_score |-> NoScore, severity |-> None,
              total_questions |-> 0, total_categories |-> 0]

\* the validation of a reply that carries none
NoValidation == [total_files |-> 0, valid_files |-> 0, missing_files |-> 0,
                 missing_file_details |-> <<>>, is_valid |-> TRUE]

Reply(code) == [code |-> code, assessment_id |-> NoSession, results |-> NoResults, validation |-> NoValidation]

NewFlaskSession ==
    [assessment_session_id |-> NoSession, assessment_order |-> None,
     phq_data |-> NoPhqData, chat_session |-> NoChat]

Idle == [state |-> "idle", attached |-> FALSE, messages |-> <<>>]

Workers == {1, 2}

IdleWorker == [pc |-> "idle", assessment_id |-> 0, category_number |-> 0,
               question_index_in_category |-> 0,
               form |-> [response_value |-> 0, question_text |-> None,
                         response_time_ms |-> -1],
               existing_response |-> 0]

Init ==
    /\ assessments = <<>>
    /\ phq9_responses = <<>>
    /\ open_responses = <<>>
    /\ emotion_data = <<>>
    /\ files = {}
    /\ fsession = [u \in Users |-> NewFlaskSession]
    /\ generation = [u \in Users |-> Idle]
    /\ response = Reply("none")
    /\ workers = [w \in Workers |-> IdleWorker]
    /\ page = [u \in Users |-> NoPage]
    /\ submitted = <<>>
    /\ settings = DefaultSettings

\* session.get('assessment_order', 'phq_first')
session_order(u) ==
    IF fsession[u].assessment_order = None THEN "phq_first"
    ELSE fsession[u].assessment_order

\* a chat_session dict taken out of the Flask session is no longer the one a
\* running generator of that user appends to
Detach(u) == [generation EXCEPT ![u].attached = FALSE]

\* --------------------------------------------------------- session lifecycle
\* POST /discard-incomplete
discard_incomplete(u) ==
    /\ assessments' =
           [i \in 1..Len(assessments) |->
               IF i \in InProgressOf(assessments, u)
               THEN [assessments[i] EXCEPT !.status = "abandoned"]
               ELSE assessments[i]]
    /\ response' = Reply("discarded")
    /\ UNCHANGED <<page, settings, phq9_responses, open_responses, emotion_data, files,
                   fsession, generation, workers, submitted>>

\* GET /start-assessment
start_assessment(u) ==
    /\ IF InProgressOf(assessments, u) # {}
       THEN /\ response' = Reply("resume_modal")
            /\ UNCHANGED <<assessments, fsession>>
       ELSE /\ Len(assessments) < MaxSessions
            /\ assessments' = create_assessment_session(assessments, u)
            /\ fsession' = [fsession EXCEPT
                   ![u].assessment_session_id = Len(assessments) + 1]
            /\ response' = Reply("camera_check")
    /\ UNCHANGED <<page, settings, phq9_responses, open_responses, emotion_data, files,
                   generation, workers, submitted>>

\* POST /start-fresh-assessment; discard_session_id is the form field
\* (NoSession when the field is absent)
start_fresh_assessment(u, discard_session_id) ==
    LET old_assessment ==
            IF /\ discard_session_id # NoSession
               /\ FindAssessment(assessments, discard_session_id, u) # NoSession
               /\ assessments[discard_session_id].status = "in_progress"
            THEN discard_session_id ELSE NoSession
        marked ==
            IF old_assessment # NoSession
            THEN [assessments EXCEPT ![old_assessment].status = "abandoned"]
            ELSE assessments
    IN /\ Len(assessments) < MaxSessions
       /\ files' = IF old_assessment # NoSession
                   THEN cleanup_session_files(files, emotion_data, old_assessment)
                   ELSE files
       /\ assessments' = create_assessment_session(marked, u)
       /\ fsession' = [fsession EXCEPT ![u] =
              [assessment_session_id |-> Len(assessments) + 1,
               assessment_order |-> None,
               phq_data |-> NoPhqData,
               chat_session |-> NoChat]]
       /\ generation' = Detach(u)
       /\ response' = Reply("camera_check")
       /\ UNCHANGED <<page, settings, phq9_responses, open_responses, emotion_data, workers,
                      submitted>>

\* GET /camera-check
camera_check(u) ==
    /\ IF fsession[u].assessment_session_id = NoSession
       THEN /\ response' = Reply("error_no_session")
            /\ UNCHANGED fsession
       ELSE \E assessment_order \in get_next_assessment_order(assessments) :
            /\ fsession' = [fsession EXCEPT ![u].assessment_order = assessment_order]
            /\ response' = Reply("camera_check")
    /\ UNCHANGED <<page, settings, assessments, phq9_responses, open_responses, emotion_data,
                   files, generation, workers, submitted>>

\* GET /camera-check while the count queries of the balancer raise
camera_check_on_error(u) ==
    /\ IF fsession[u].assessment_session_id = NoSession
       THEN /\ response' = Reply("error_no_session")
            /\ UNCHANGED fsession
       ELSE \E assessment_order \in get_next_assessment_order_on_error(assessments) :
            IF assessment_order = "error"
            THEN /\ response' = Reply("error_500")
                 /\ UNCHANGED fsession
            ELSE /\ fsession' = [fsession EXCEPT ![u].assessment_order = assessment_order]
                 /\ response' = Reply("camera_check")
    /\ UNCHANGED <<page, settings, assessments, phq9_responses, open_responses, emotion_data,
                   files, generation, workers, submitted>>

\* POST /camera-verified
camera_verified(u) ==
    LET id == FindAssessment(assessments, fsession[u].assessment_session_id, u)
    IN /\ IF fsession[u].assessment_session_id = NoSession
          THEN /\ response' = Reply("error_no_session")
               /\ UNCHANGED assessments
          ELSE IF id = NoSession
          THEN /\ response' = Reply("error_not_found")
               /\ UNCHANGED assessments
          ELSE /\ assessments' = record_camera_verification(assessments, id)
               /\ response' = Reply("consent")
       /\ UNCHANGED <<page, settings, phq9_responses, open_responses, emotion_data, files,
                      fsession, generation, workers, submitted>>

\* submit_consent: the module that is started and redirected to, from the
\* assessment_order of the Flask session
consent_route(assessment_order) ==
    IF assessment_order = "phq_first" THEN "phq9" ELSE "open_questions"

\* complete_open_questions: where the subject is redirected, from the row
\* after the module was marked completed and the assessment_order of the
\* Flask session
open_questions_route(assessment, assessment_order) ==
    IF assessment.status = "completed"
    THEN "assessment_complete"
    ELSE IF assessment_order = "questions_first"
    THEN "phq9_assessment"
    ELSE "assessment_complete"

\* a consent handler that does not look at the acknowledgement
submit_consent_unchecked(u, consent_agreed, session_id) ==
    LET id == FindAssessment(assessments, session_id, u)
        first == consent_route(session_order(u))
    IN /\ IF id = NoSession
          THEN /\ response' = Reply("error_not_found")
               /\ UNCHANGED assessments
          ELSE /\ assessments' =
                      start_assessment_type(record_consent(assessments, id),
                                            id, first)
               /\ response' = Reply(first)
       /\ UNCHANGED <<page, settings, phq9_responses, open_responses, emotion_data, files,
                      fsession, generation, workers, submitted>>

\* POST /submit-consent; consent_agreed (whether the form field is there and
\* not empty) and session_id are form fields
submit_consent(u, consent_agreed, session_id) ==
    LET id == FindAssessment(assessments, session_id, u)
        first == consent_route(session_order(u))
    IN /\ IF ~consent_agreed
          THEN /\ response' = Reply("error_must_agree")
               /\ UNCHANGED assessments
          ELSE IF id = NoSession
          THEN /\ response' = Reply("error_not_found")
               /\ UNCHANGED assessments
          ELSE /\ assessments' =
                      start_assessment_type(record_consent(assessments, id),
                                            id, first)
               /\ response' = Reply(first)
       /\ UNCHANGED <<page, settings, phq9_responses, open_responses, emotion_data, files,
                      fsession, generation, workers, submitted>>

\* --------------------------------------------------------- structured module
\* the last submission made for a response key
Submission(response_value, question_text, response_time_ms) ==
    [response_value |-> response_value, question_text |-> question_text,
     response_time_ms |-> response_time_ms]

Key(assessment_id, category_number, question_index_in_category) ==
    <<assessment_id, category_number, IdxOrZero(question_index_in_category)>>

Record(log, key, submission) ==
    IF \E i \in 1..Len(log) : log[i].key = key
    THEN [i \in 1..Len(log) |->
             IF log[i].key = key
             THEN [key |-> key, last |-> submission, resubmitted |-> TRUE]
             ELSE log[i]]
    ELSE Append(log, [key |-> key, last |-> submission, resubmitted |-> FALSE])

\* GET /phq9-assessment
phq9_assessment(u) ==
    LET sid == fsession[u].assessment_session_id
        id == FindAssessment(assessments, sid, u)
    IN /\ \E questions \in get_phq_settings :
          LET phq_data == create_phq_session(questions) IN
          IF sid = NoSession
          THEN /\ response' = Reply("error_no_session")
               /\ UNCHANGED <<assessments, fsession>>
          ELSE IF Len(phq_data.questions) = 0
          THEN /\ response' = Reply("error_no_questions")
               /\ UNCHANGED <<assessments, fsession>>
          ELSE IF id = NoSession
          THEN /\ fsession' = [fsession EXCEPT ![u].phq_data = phq_data]
               /\ response' = Reply("error_setup")
               /\ UNCHANGED assessments
          ELSE /\ assessments' =
                      start_assessment_type(
                          [assessments EXCEPT
                              ![id].assessment_order = session_order(u)],
                          id, "phq9")
               /\ fsession' = [fsession EXCEPT ![u].phq_data = phq_data]
               /\ response' = Reply("phq9_question")
       /\ UNCHANGED <<page, settings, phq9_responses, open_responses, emotion_data, files,
                      generation, workers, submitted>>

\* GET /phq9-question/<question_index>
phq9_question(u, question_index) ==
       /\ \E questions \in get_phq_settings :
          LET phq_data == IF fsession[u].phq_data.present
                          THEN fsession[u].phq_data
                          ELSE create_phq_session(questions) IN
          IF fsession[u].assessment_session_id = NoSession
          THEN /\ response' = Reply("error_no_session")
               /\ UNCHANGED <<fsession, page>>
          ELSE /\ fsession' = [fsession EXCEPT ![u].phq_data = phq_data]
               /\ response' =
                      IF Len(phq_data.questions) = 0
                      THEN Reply("error_no_questions")
                      ELSE IF question_index >= Len(phq_data.questions)
                      THEN Reply("invalid_question_index")
                      ELSE Reply("phq9_question")
               /\ page' =
                      IF question_index < Len(phq_data.questions)
                      THEN [page EXCEPT ![u] =
                               QuestionPage(question_index,
                                   phq_data.questions[question_index + 1])]
                      ELSE page
       /\ UNCHANGED <<settings, assessments, phq9_responses, open_responses,
                      emotion_data, files, generation, workers, submitted>>

\* POST /phq9-submit; question_index, response_value and response_time_ms
\* are form fields
phq9_submit(u, question_index, response_value, response_time_ms) ==
    LET sid == fsession[u].assessment_session_id
        phq_data == fsession[u].phq_data
        id == FindAssessment(assessments, sid, u)
        current_question == phq_data.questions[question_index + 1]
        saved == save_phq_response(phq9_responses, id,
                     current_question.category, response_value,
                     current_question.question, response_time_ms,
                     current_question.question_index_in_category)
        scored == calculate_phq_score(assessments, saved, id)
    IN /\ UNCHANGED <<page, settings, open_responses, emotion_data, files, fsession,
                      generation, workers>>
       /\ IF sid = NoSession \/ ~phq_data.present
          THEN /\ response' = Reply("error_no_phq_session")
               /\ UNCHANGED <<assessments, phq9_responses, submitted>>
          ELSE IF question_index >= Len(phq_data.questions) \/ id = NoSession
          THEN /\ response' = Reply("error_500")
               /\ UNCHANGED <<assessments, phq9_responses, submitted>>
          ELSE /\ phq9_responses' = saved
               /\ submitted' = Record(submitted,
                      Key(id, current_question.category,
                          current_question.question_index_in_category),
                      Submission(response_value, current_question.question,
                                 response_time_ms))
               /\ IF question_index + 1 >= Len(phq_data.questions)
                  THEN /\ assessments' = scored.assessments
                       /\ response' =
                              [code |-> IF scored.assessments[id].status = "completed"
                                        THEN "assessment_complete"
                                        ELSE IF session_order(u) = "phq_first"
                                        THEN "open_questions"
                                        ELSE "assessment_complete",
                               assessment_id |-> id,
                               results |-> scored.results]
                  ELSE /\ response' = Reply("phq9_question")
                       /\ UNCHANGED assessments

\* ----------------------------------------------------- conversational module
\* GET /open-questions-assessment
open_questions_assessment(u) ==
    LET sid == fsession[u].assessment_session_id
        id == FindAssessment(assessments, sid, u)
    IN /\ IF sid = NoSession
          THEN /\ response' = Reply("error_no_session")
               /\ UNCHANGED <<assessments, fsession, generation>>
          ELSE IF ~chat_settings_configured
          THEN /\ response' = Reply("error_prompt_not_configured")
               /\ UNCHANGED <<assessments, fsession, generation>>
          ELSE /\ fsession' = [fsession EXCEPT
                      ![u].chat_session = create_chat_session]
               /\ generation' = Detach(u)
               /\ assessments' =
                      IF id # NoSession /\ assessments[id].assessment_order = None
                      THEN [assessments EXCEPT
                               ![id].assessment_order = session_order(u)]
                      ELSE assessments
               /\ response' = Reply("open_questions")
       /\ UNCHANGED <<page, settings, phq9_responses, open_responses, emotion_data, files,
                      workers, submitted>>

Entry(type, content) == [type |-> type, content |-> content]

\* GET /chat-stream/<message>: the handler up to the return of the streaming
\* response; the generator runs afterwards
chat_stream(u, message) ==
    LET chat_session == fsession[u].chat_session
    IN /\ generation[u].state = "idle"
       /\ IF fsession[u].assessment_session_id = NoSession
             \/ ~chat_session.present
          THEN /\ response' = Reply("error_invalid_request")
               /\ UNCHANGED <<fsession, generation>>
          ELSE /\ chat_session.exchange_count < MaxExchanges
               /\ Len(chat_session.message_history) < 1 + 2 * MaxExchanges
               /\ fsession' = [fsession EXCEPT ![u].chat_session =
                      [chat_session EXCEPT
                          !.message_history =
                              Append(@, Entry("human", message)),
                          !.conversation_history =
                              Append(@, Entry("human", message))]]
               /\ generation' = [generation EXCEPT
                      ![u] = [state |-> "streaming", attached |-> TRUE,
                              messages |->
                                  IF chat_session.system_prompt = "" THEN <<>>
                                  ELSE generate_streaming_response(
                                           fsession'[u].chat_session, message)]]
               /\ response' = Reply("stream")
       /\ UNCHANGED <<page, settings, assessments, phq9_responses, open_responses,
                      emotion_data, files, workers, submitted>>

\* the generator of chat_stream after the provider's last chunk: the agent
\* turn is appended to the chat_session dict the handler took from the session
generate_complete(u, response_content) ==
    /\ generation[u].state = "streaming"
    /\ generation[u].messages # <<>>
    /\ generation' = [generation EXCEPT ![u] = Idle]
    /\ fsession' =
           IF generation[u].attached
           THEN [fsession EXCEPT ![u].chat_session =
                    [@ EXCEPT
                        !.message_history =
                            Append(@, Entry("ai", response_content)),
                        !.conversation_history =
                            Append(@, Entry("ai", response_content)),
                        !.exchange_count = @ + 1]]
           ELSE fsession
    /\ response' = Reply("complete")
    /\ UNCHANGED <<page, settings, assessments, phq9_responses, open_responses, emotion_data,
                   files, workers, submitted>>

\* the generator of chat_stream when the provider raises: nothing is appended
generate_fail(u) ==
    /\ generation[u].state = "streaming"
    /\ generation' = [generation EXCEPT ![u] = Idle]
    /\ response' = Reply("stream_error")
    /\ UNCHANGED <<page, settings, assessments, phq9_responses, open_responses, emotion_data,
                   files, fsession, workers, submitted>>

\* POST /save-conversation
save_conversation_request(u) ==
    LET sid == fsession[u].assessment_session_id
        chat_session == fsession[u].chat_session
        id == FindAssessment(assessments, sid, u)
        saved == save_conversation(open_responses, id, chat_session)
    IN /\ IF sid = NoSession \/ ~chat_session.present
          THEN /\ response' = Reply("error_no_conversation")
               /\ UNCHANGED <<assessments, open_responses, fsession, generation>>
          ELSE IF id = NoSession \/ ~chat_settings_configured
          THEN /\ response' = Reply("error_500")
               /\ UNCHANGED <<assessments, open_responses, fsession, generation>>
          ELSE /\ Len(saved) <= MaxOpenRows
               /\ open_responses' = saved
               /\ assessments' =
                      start_assessment_type(assessments, id, "open_questions")
               /\ fsession' = [fsession EXCEPT ![u].chat_session = NoChat]
               /\ generation' = Detach(u)
               /\ response' = Reply("conversation_saved")
       /\ UNCHANGED <<page, settings, phq9_responses, emotion_data, files, workers, submitted>>

\* GET|POST /complete-open-questions
complete_open_questions(u) ==
    LET sid == fsession[u].assessment_session_id
        id == FindAssessment(assessments, sid, u)
        done == [assessments EXCEPT
                    ![id] = complete_assessment_type(@, "open_questions")]
    IN /\ IF sid = NoSession
          THEN /\ response' = Reply("error_no_session")
               /\ UNCHANGED assessments
          ELSE IF id = NoSession
          THEN /\ response' = Reply("error_500")
               /\ UNCHANGED assessments
          ELSE /\ assessments' = done
               /\ response' = Reply(open_questions_route(done[id],
                                                         session_order(u)))
       /\ UNCHANGED <<page, settings, phq9_responses, open_responses, emotion_data, files,
                      fsession, generation, workers, submitted>>

\* GET /assessment-complete
assessment_complete(u) ==
    LET sid == fsession[u].assessment_session_id
        id == FindAssessment(assessments, sid, u)
    IN /\ IF sid = NoSession
          THEN /\ response' = Reply("error_no_session")
               /\ UNCHANGED <<fsession, generation>>
          ELSE IF id = NoSession \/ assessments[id].status # "completed"
          THEN /\ response' = Reply("error_not_completed")
               /\ UNCHANGED <<fsession, generation>>
          ELSE /\ fsession' = [fsession EXCEPT ![u] = NewFlaskSession]
               /\ generation' = Detach(u)
               /\ response' = Reply("completion_page")
       /\ UNCHANGED <<page, settings, assessments, phq9_responses, open_responses,
                      emotion_data, files, workers, submitted>>

\* --------------------------------------------------------------------- media
\* POST /capture-emotion-binary; assessment_type and media_type are form
\* fields, now is the clock reading that names the file
capture_emotion_binary(u, assessment_type, media_type, now, outcome) ==
    LET sid == fsession[u].assessment_session_id
        id == FindAssessment(assessments, sid, u)
        file_path == storage_file_path(sid, assessment_type, media_type, now)
    IN /\ IF sid = NoSession
          THEN /\ response' = Reply("error_no_session")
               /\ UNCHANGED <<emotion_data, files>>
          ELSE IF id = NoSession
          THEN /\ response' = Reply("error_500")
               /\ UNCHANGED <<emotion_data, files>>
          ELSE /\ Len(emotion_data) < MaxMedia
               /\ media_type = "image" => outcome # "too_large"
               /\ files' = write_file(files, file_path, outcome)
               /\ emotion_data' =
                      IF media_type = "video"
                      THEN save_video(emotion_data, id, assessment_type,
                                      file_path, outcome)
                      ELSE save_image(emotion_data, id, assessment_type,
                                      file_path, outcome)
               /\ response' = IF outcome = "written"
                              THEN Reply("media_saved")
                              ELSE Reply("error_upload_failed")
       /\ UNCHANGED <<page, settings, assessments, phq9_responses, open_responses, fsession,
                      generation, workers, submitted>>

\* GET /validate-session-files
validate_session_files_request(u) ==
    LET sid == fsession[u].assessment_session_id
    IN /\ response' =
              IF sid = NoSession
              THEN Reply("error_no_session")
              ELSE [Reply("validation") EXCEPT !.validation =
                       validate_session_files(assessments, emotion_data,
                                              files, sid, u)]
       /\ UNCHANGED <<page, settings, assessments, phq9_responses, open_responses,
                      emotion_data, files, fsession, generation, workers,
                      submitted>>

\* AssessmentService.delete_assessment_session, called for a session of the
\* user; fail_at is the row whose unlink raises during the cleanup (0: none)
delete_assessment_session(u, session_id, fail_at) ==
    LET id == FindAssessment(assessments, session_id, u)
    IN /\ IF id = NoSession
          THEN /\ fail_at = 0
               /\ response' = Reply("error_not_found")
               /\ UNCHANGED <<assessments, phq9_responses, open_responses,
                              emotion_data, files>>
          ELSE /\ fail_at <= Len(get_session_files(assessments, emotion_data,
                                                   session_id, u))
               /\ fail_at # 0 =>
                      get_session_files(assessments, emotion_data,
                                        session_id, u)[fail_at].file_path \in files
               /\ files' = cleanup_session_files_until(files, emotion_data,
                                                       id, fail_at)
               /\ assessments' = [assessments EXCEPT ![id] = DeletedAssessment]
               /\ phq9_responses' = cascade_delete(phq9_responses, id)
               /\ open_responses' = cascade_delete(open_responses, id)
               /\ emotion_data' = cascade_delete(emotion_data, id)
               /\ response' = Reply("session_deleted")
       /\ UNCHANGED <<page, settings, fsession, generation, workers, submitted>>

\* a file is deleted from the upload directory by something other than the
\* application
external_unlink(file_path) ==
    /\ file_path \in files
    /\ files' = files \ {file_path}
    /\ UNCHANGED <<page, settings, assessments, phq9_responses, open_responses,
                   emotion_data, fsession, generation, response, workers,
                   submitted>>

\* POST /admin/settings: an admin saves the conversation prompt
save_settings(prompt) ==
    /\ settings' = [settings EXCEPT !.openquestion_prompt = prompt]
    /\ response' = Reply("settings_saved")
    /\ UNCHANGED <<page, assessments, phq9_responses, open_responses, emotion_data,
                   files, fsession, generation, workers, submitted>>

\* ------------------------------------------------------------ specifications
SessionIds == 0..MaxSessions
QuestionIndexes == 0..Len(all_questions_from(1))
ResponseValues == scale_min..scale_max
Messages == {"m"}
Clock == 1..MaxClock

\* Session creation and abandonment, by every user
SessionNext ==
    \/ \E u \in Users : discard_incomplete(u)
    \/ \E u \in Users : start_assessment(u)
    \/ \E u \in Users, discard_session_id \in SessionIds :
           start_fresh_assessment(u, discard_session_id)
    \/ \E u \in Users : camera_verified(u)
    \/ \E u \in Users, consent_agreed \in BOOLEAN, session_id \in SessionIds :
           submit_consent(u, consent_agreed, session_id)
    \/ \E u \in Users : complete_open_questions(u)
    \/ \E u \in Users, media_type \in {"image", "video"}, now \in Clock,
          outcome \in WriteOutcomes :
           capture_emotion_binary(u, "phq9", media_type, now, outcome)

Spec == Init /\ [][SessionNext]_vars

\* The steps of one user's sessions, from creation to completion
FlowNext ==
    \/ start_assessment(1)
    \/ camera_check(1)
    \/ camera_verified(1)
    \/ \E consent_agreed \in BOOLEAN, session_id \in SessionIds :
           submit_consent(1, consent_agreed, session_id)
    \/ phq9_assessment(1)
    \/ \E question_index \in QuestionIndexes : phq9_question(1, question_index)
    \/ \E question_index \in QuestionIndexes,
          response_value \in {scale_min, scale_max} :
           phq9_submit(1, question_index, response_value, NoTime)
    \/ complete_open_questions(1)
    \/ assessment_complete(1)

FlowSpec == Init /\ [][FlowNext]_vars

\* One user's conversational module, with abandonment
ChatNext ==
    \/ discard_incomplete(1)
    \/ start_assessment(1)
    \/ open_questions_assessment(1)
    \/ \E message \in Messages : chat_stream(1, message)
    \/ generate_complete(1, "r")
    \/ generate_fail(1)
    \/ save_conversation_request(1)
    \/ complete_open_questions(1)

ChatSpec == Init /\ [][ChatNext]_vars

\* ------------------------------------------------- the PHQ service on its own
\* the first user has a session in progress
SaveInit ==
    /\ assessments = <<NewAssessment(1)>>
    /\ phq9_responses = <<>>
    /\ open_responses = <<>>
    /\ emotion_data = <<>>
    /\ files = {}
    /\ fsession = [u \in Users |->
                      IF u = 1
                      THEN [NewFlaskSession EXCEPT !.assessment_session_id = 1]
                      ELSE NewFlaskSession]
    /\ generation = [u \in Users |-> Idle]
    /\ response = Reply("none")
    /\ workers = [w \in Workers |-> IdleWorker]
    /\ page = [u \in Users |-> NoPage]
    /\ submitted = <<>>
    /\ settings = DefaultSettings

\* the submissions a client makes: value, displayed question text, latency
Forms == {Submission(2, "qa", NoTime), Submission(1, "qb", 7),
          Submission(3, "qa", 7)}
Categories == {1, 3}
CategoryIndexes == {NoneIdx, 1}

\* a call of PHQService.save_phq_response
save_phq_response_call(assessment_session_id, user_id, category_number, form, question_index_in_category) ==
    LET id == FindAssessment(assessments, assessment_session_id, user_id)
        saved == save_phq_response(phq9_responses, id, category_number,
                     form.response_value, form.question_text,
                     form.response_time_ms, question_index_in_category)
    IN /\ IF id = NoSession
          THEN /\ response' = Reply("error_not_found")
               /\ UNCHANGED <<phq9_responses, submitted>>
          ELSE /\ Len(saved) <= MaxRows \/ Len(saved) = Len(phq9_responses)
               /\ phq9_responses' = saved
               /\ submitted' = Record(submitted,
                      Key(id, category_number, question_index_in_category), form)
               /\ response' = [Reply("saved") EXCEPT !.assessment_id = id]
       /\ UNCHANGED <<page, settings, assessments, open_responses, emotion_data, files,
                      fsession, generation, workers>>

\* a call of PHQService.calculate_phq_score
calculate_phq_score_call(assessment_session_id, user_id) ==
    LET id == FindAssessment(assessments, assessment_session_id, user_id)
        scored == calculate_phq_score(assessments, phq9_responses, id)
    IN /\ IF id = NoSession
          THEN /\ response' = Reply("error_not_found")
               /\ UNCHANGED assessments
          ELSE /\ assessments' = scored.assessments
               /\ response' = [code |-> "scored", assessment_id |-> id,
                               results |-> scored.results]
       /\ UNCHANGED <<page, settings, phq9_responses, open_responses, emotion_data, files,
                      fsession, generation, workers, submitted>>

SaveNext ==
    \/ \E assessment_session_id \in {1}, user_id \in Users,
          category_number \in Categories, form \in Forms,
          question_index_in_category \in CategoryIndexes :
           save_phq_response_call(assessment_session_id, user_id,
               category_number, form, question_index_in_category)
    \/ \E assessment_session_id \in {1}, user_id \in Users :
           calculate_phq_score_call(assessment_session_id, user_id)

SaveSpec == SaveInit /\ [][SaveNext]_vars

\* ------------------------------------- concurrent calls of save_phq_response
\* a worker runs the lookup of save_phq_response and stops before the write
save_lookup(w, assessment_session_id, user_id, category_number, form, question_index_in_category) ==
    LET id == FindAssessment(assessments, assessment_session_id, user_id)
    IN /\ workers[w].pc = "idle"
       /\ id # NoSession
       /\ workers' = [workers EXCEPT ![w] =
              [pc |-> "write", assessment_id |-> id,
               category_number |-> category_number,
               question_index_in_category |-> question_index_in_category,
               form |-> form,
               existing_response |->
                   find_existing_response(phq9_responses, id, category_number,
                                          question_index_in_category)]]
       /\ UNCHANGED <<page, settings, assessments, phq9_responses, open_responses,
                      emotion_data, files, fsession, generation, response,
                      submitted>>

\* the worker updates the row it found, or inserts, and commits
save_write(w) ==
    LET call == workers[w]
        saved == write_phq_response(phq9_responses, call.existing_response,
                     call.assessment_id, call.category_number,
                     call.form.response_value, call.form.question_text,
                     call.form.response_time_ms,
                     call.question_index_in_category)
    IN /\ call.pc = "write"
       /\ Len(saved) <= MaxRows
       /\ phq9_responses' = saved
       /\ submitted' = Record(submitted,
              Key(call.assessment_id, call.category_number,
                  call.question_index_in_category), call.form)
       /\ workers' = [workers EXCEPT ![w] = IdleWorker]
       /\ response' = [Reply("saved") EXCEPT !.assessment_id = call.assessment_id]
       /\ UNCHANGED <<page, settings, assessments, open_responses, emotion_data, files,
                      fsession, generation>>

ConcNext ==
    \/ \E w \in Workers, category_number \in {1}, form \in Forms,
          question_index_in_category \in CategoryIndexes :
           save_lookup(w, 1, 1, category_number, form,
                       question_index_in_category)
    \/ \E w \in Workers : save_write(w)

ConcSpec == SaveInit /\ [][ConcNext]_vars

\* -------------------------------------------- scoring over the whole range
\* a questionnaire of NumQuestions single-question categories answered so
\* that the total is 3 * full + last: the first `full` answers are scale_max,
\* the next one is `last`, the others scale_min
AnsweredRows(full, last) ==
    [k \in 1..NumQuestions |->
        [assessment_id |-> 1,
         question_number |-> k,
         question_index_in_category |-> 0,
         question_text |-> "qa",
         response_value |-> IF k <= full THEN scale_max
                            ELSE IF k = full + 1 THEN last
                            ELSE scale_min,
         response_time_ms |-> NoTime]]

ScoreInit ==
    /\ assessments = <<NewAssessment(1)>>
    /\ \E full \in 0..(NumQuestions - 1), last \in scale_min..scale_max :
           phq9_responses = AnsweredRows(full, last)
    /\ open_responses = <<>>
    /\ emotion_data = <<>>
    /\ files = {}
    /\ fsession = [u \in Users |->
                      IF u = 1
                      THEN [NewFlaskSession EXCEPT !.assessment_session_id = 1]
                      ELSE NewFlaskSession]
    /\ generation = [u \in Users |-> Idle]
    /\ response = Reply("none")
    /\ workers = [w \in Workers |-> IdleWorker]
    /\ page = [u \in Users |-> NoPage]
    /\ submitted = <<>>
    /\ settings = DefaultSettings

ScoreNext ==
    \/ \E form \in Forms : save_phq_response_call(1, 1, 1, form, NoneIdx)
    \/ calculate_phq_score_call(1, 1)

ScoreSpec == ScoreInit /\ [][ScoreNext]_vars

\* ------------------------------------------------- order balancing in sequence
\* the tally get_next_assessment_order counts
PhqFirstCount ==
    Cardinality({i \in 1..Len(assessments) :
                    assessments[i].first_assessment_type = "phq9"})
QuestionsFirstCount ==
    Cardinality({i \in 1..Len(assessments) :
                    assessments[i].first_assessment_type = "open_questions"})
TallyTotal == PhqFirstCount + QuestionsFirstCount

\* a session of the past that started its first module
PastAssessment(user_id, first) ==
    [NewAssessment(user_id) EXCEPT !.status = "abandoned",
                                   !.consent_agreed = TRUE,
                                   !.first_assessment_type = first,
                                   !.first_assessment_started_at = TRUE]

\* phq_first past sessions with a structured-first start, then the others
History(phq_first, questions_first) ==
    [i \in 1..(phq_first + questions_first) |->
        PastAssessment(1, IF i <= phq_first THEN "phq9" ELSE "open_questions")]

\* a past tally within the band (or empty), and a fresh session for each of
\* the two subjects
BalanceInit ==
    /\ \E total \in 0..MaxHistory, phq_first \in 0..MaxHistory :
          /\ phq_first <= total
          /\ 45 * total <= 100 * phq_first
          /\ 100 * phq_first <= 55 * total
          /\ assessments = History(phq_first, total - phq_first)
                               \o <<NewAssessment(1), NewAssessment(2)>>
    /\ phq9_responses = <<>>
    /\ open_responses = <<>>
    /\ emotion_data = <<>>
    /\ files = {}
    /\ fsession = [u \in Users |->
                      IF u \in {1, 2}
                      THEN [NewFlaskSession EXCEPT !.assessment_session_id =
                                                       Len(assessments) - 2 + u]
                      ELSE NewFlaskSession]
    /\ generation = [u \in Users |-> Idle]
    /\ response = Reply("none")
    /\ workers = [w \in Workers |-> IdleWorker]
    /\ page = [u \in Users |-> NoPage]
    /\ submitted = <<>>
    /\ settings = DefaultSettings

\* the session of subject u has been counted in the tally
Counted(u) ==
    assessments[fsession[u].assessment_session_id].first_assessment_type # None

\* each subject takes an order at the camera check and is counted at
\* consent; the second subject starts after the first was counted
BalanceNext ==
    \/ camera_check(1)
    \/ /\ fsession[1].assessment_order # None
       /\ \E consent_agreed \in BOOLEAN :
              submit_consent(1, consent_agreed, fsession[1].assessment_session_id)
    \/ /\ Counted(1)
       /\ camera_check(2)
    \/ /\ Counted(1)
       /\ fsession[2].assessment_order # None
       /\ \E consent_agreed \in BOOLEAN :
              submit_consent(2, consent_agreed, fsession[2].assessment_session_id)

BalanceSpec == BalanceInit /\ [][BalanceNext]_vars

\* ------------------------------------------------ building the question pool
QuestionStrings == {" ", "qa", " qb"}

QuestionLists(longest) == UNION {[1..n -> QuestionStrings] : n \in 0..longest}

\* the values phq_category_<n>_questions can hold, with lists up to a length
QuestionsData(longest) ==
    {NoData, JsonValue("7"), JsonValue(QuotedPair)}
        \cup {JsonList(items) : items \in QuestionLists(longest)}
        \cup {CommaText(pieces) : pieces \in QuestionLists(longest) \ {<<>>}}

\* the first category has up to MaxQuestionsPerCategory questions, the
\* others up to one
CategorySettings ==
    {categories \in [1..MaxCategories ->
                        [exists : BOOLEAN,
                         questions_data : QuestionsData(MaxQuestionsPerCategory)]] :
        \A cat_num \in 2..MaxCategories :
            categories[cat_num].questions_data \in QuestionsData(1)}

\* any configuration of the categories, and a session of the first subject
PoolInit ==
    /\ assessments = <<NewAssessment(1)>>
    /\ phq9_responses = <<>>
    /\ open_responses = <<>>
    /\ emotion_data = <<>>
    /\ files = {}
    /\ fsession = [u \in Users |->
                      IF u = 1
                      THEN [NewFlaskSession EXCEPT !.assessment_session_id = 1]
                      ELSE NewFlaskSession]
    /\ generation = [u \in Users |-> Idle]
    /\ response = Reply("none")
    /\ workers = [w \in Workers |-> IdleWorker]
    /\ page = [u \in Users |-> NoPage]
    /\ submitted = <<>>
    /\ \E randomize_questions \in BOOLEAN, categories \in CategorySettings :
           settings = [DefaultSettings EXCEPT
                          !.randomize_questions = randomize_questions,
                          !.categories = categories]

PoolNext ==
    \/ phq9_assessment(1)
    \/ \E question_index \in 0..MaxQuestionsPerCategory :
           phq9_question(1, question_index)

PoolSpec == PoolInit /\ [][PoolNext]_vars

\* ------------------------------------- the conversation and prompt editing
Prompts == {"", "prompt", "prompt2"}

\* a session of the first subject, with any prompt configured or none
PromptInit ==
    /\ assessments = <<NewAssessment(1)>>
    /\ phq9_responses = <<>>
    /\ open_responses = <<>>
    /\ emotion_data = <<>>
    /\ files = {}
    /\ fsession = [u \in Users |->
                      IF u = 1
                      THEN [NewFlaskSession EXCEPT !.assessment_session_id = 1]
                      ELSE NewFlaskSession]
    /\ generation = [u \in Users |-> Idle]
    /\ response = Reply("none")
    /\ workers = [w \in Workers |-> IdleWorker]
    /\ page = [u \in Users |-> NoPage]
    /\ submitted = <<>>
    /\ \E prompt \in Prompts :
           settings = [DefaultSettings EXCEPT !.openquestion_prompt = prompt]

PromptNext ==
    \/ \E prompt \in Prompts : save_settings(prompt)
    \/ open_questions_assessment(1)
    \/ \E message \in Messages : chat_stream(1, message)
    \/ generate_complete(1, "r")
    \/ generate_fail(1)
    \/ save_conversation_request(1)

PromptSpec == PromptInit /\ [][PromptNext]_vars

\* ------------------------------------------------------------------ properties
SessionRows == 1..Len(assessments)

\* C1: a subject has at most one session in progress at any time
C1_AtMostOneInProgress ==
    \A u \in Users : Cardinality(InProgressOf(assessments, u)) <= 1

\* C2: camera verification is recorded only on a session whose consent is
\* recorded, and a module is started only on a session with both recorded
C2_ConsentThenCameraThenModule ==
    \A i \in SessionRows :
        /\ assessments[i].camera_verified => assessments[i].consent_agreed
        /\ assessments[i].first_assessment_type # None =>
               /\ assessments[i].consent_agreed
               /\ assessments[i].camera_verified

\* the keys (category, index) of the question pool a session is asked
PoolKeys ==
    {<<all_questions_from(1)[k].category,
       all_questions_from(1)[k].question_index_in_category>> :
        k \in 1..Len(all_questions_from(1))}

\* C3: a session is marked as having completed the questionnaire only when
\* every entry of its question pool has a saved response
C3_CompleteOnlyWhenPoolAnswered ==
    \A i \in SessionRows :
        assessments[i].phq9_completed =>
            \A key \in PoolKeys :
                \E r \in 1..Len(phq9_responses) :
                    /\ phq9_responses[r].assessment_id = i
                    /\ phq9_responses[r].question_number = key[1]
                    /\ phq9_responses[r].question_index_in_category = key[2]

\* C4: a conversation never holds more completed exchanges than the
\* configured cap
C4_ExchangesWithinCap ==
    \A u \in Users :
        fsession[u].chat_session.exchange_count <= ConfiguredMaxExchanges

\* C5: a session has status completed exactly when both module flags are
\* set, and then its completion time, score and severity are set
C5_CompletedIffBothModules ==
    \A i \in SessionRows :
        /\ assessments[i].status = "completed" <=>
               (assessments[i].phq9_completed
                /\ assessments[i].open_questions_completed)
        /\ assessments[i].status = "completed" =>
               /\ assessments[i].completed_at # None
               /\ assessments[i].phq9_score # NoScore
               /\ assessments[i].phq9_severity # None

\* the files on disk that belong to the media rows of a session
MediaFilesOf(disk, rows, assessment_id) ==
    disk \cap {rows[i].file_path : i \in {j \in 1..Len(rows) :
                                             rows[j].assessment_id = assessment_id}}

\* C6: an abandoned session stays abandoned, a completed session is never
\* abandoned, a step that abandons a session leaves none of its media files,
\* and a step that creates a session leaves no older session of that subject
\* in progress
C6_AbandonmentIsTerminalAndClean ==
    [][\A i \in SessionRows :
          /\ assessments[i].status = "abandoned" =>
                 assessments'[i].status = "abandoned"
          /\ assessments[i].status = "completed" =>
                 assessments'[i].status = "completed"
          /\ (assessments[i].status = "in_progress"
              /\ assessments'[i].status = "abandoned") =>
                 MediaFilesOf(files', emotion_data', i) = {}
          /\ Len(assessments') > Len(assessments) =>
                 ~ (/\ assessments'[i].status = "in_progress"
                    /\ assessments'[i].user_id =
                           assessments'[Len(assessments')].user_id)]_vars

\* the rows of a table that belong to one session
RowsOf(rows, assessment_id) ==
    SelectSeq(rows, LAMBDA r : r.assessment_id = assessment_id)

\* C7: once a session is abandoned, no step changes its row or any row
\* stored for it
C7_NoWriteAfterAbandonment ==
    [][\A i \in SessionRows :
          assessments[i].status = "abandoned" =>
              /\ assessments'[i] = assessments[i]
              /\ RowsOf(phq9_responses', i) = RowsOf(phq9_responses, i)
              /\ RowsOf(open_responses', i) = RowsOf(open_responses, i)
              /\ RowsOf(emotion_data', i) = RowsOf(emotion_data, i)]_vars

RowKey(r) == <<r.assessment_id, r.question_number, r.question_index_in_category>>

\* C8: there is one row per (session, category, index) key that was
\* submitted and no other row, and the row holds the value, the latency and
\* the question text of the last submission for its key
C8_OneRowPerKeyHoldingLastSubmission ==
    /\ \A i, j \in 1..Len(phq9_responses) :
           RowKey(phq9_responses[i]) = RowKey(phq9_responses[j]) => i = j
    /\ \A i \in 1..Len(phq9_responses) :
           \E e \in Range(submitted) : e.key = RowKey(phq9_responses[i])
    /\ \A e \in Range(submitted) :
           \E i \in 1..Len(phq9_responses) :
               /\ RowKey(phq9_responses[i]) = e.key
               /\ phq9_responses[i].response_value = e.last.response_value
               /\ phq9_responses[i].response_time_ms = e.last.response_time_ms
               /\ phq9_responses[i].question_text = e.last.question_text

\* a key was submitted again with value 1, beside a row of another key
C8_Resubmitted ==
    /\ Len(phq9_responses) >= 2
    /\ \E e \in Range(submitted) :
           /\ e.resubmitted
           /\ e.last.response_value = 1
           /\ \E i \in 1..Len(phq9_responses) :
                  /\ RowKey(phq9_responses[i]) = e.key
                  /\ phq9_responses[i].response_value = 1

\* C9: with the lookups and writes of concurrent submissions interleaved,
\* every key still has a single row
C9_SingleRowUnderInterleaving ==
    \A key \in {RowKey(phq9_responses[i]) : i \in 1..Len(phq9_responses)} :
        Cardinality({i \in 1..Len(phq9_responses) :
                        RowKey(phq9_responses[i]) = key}) = 1

\* the sum of the stored values of a session, counted value by value
PlainSum(assessment_id) ==
    SumSeq([v \in 1..scale_max |->
               v * Cardinality({i \in 1..Len(phq9_responses) :
                                   /\ phq9_responses[i].assessment_id = assessment_id
                                   /\ phq9_responses[i].response_value = v})])

\* C10: the total a scoring reports and stores is the plain sum of the
\* response values of all rows of the session, whatever their categories
C10_TotalIsPlainSum ==
    response.code = "scored" =>
        /\ response.results.total_score = PlainSum(response.assessment_id)
        /\ assessments[response.assessment_id].phq9_score =
               PlainSum(response.assessment_id)

\* a scoring over three rows in two categories
C10_ScoredAcrossCategories ==
    /\ response.code = "scored"
    /\ response.results.total_questions = 3
    /\ response.results.total_categories = 2
    /\ response.results.total_score = 6

\* the severity bands on the total score
SeverityBand(total) ==
    IF total < 5 THEN "minimal"
    ELSE IF total <= 9 THEN "mild"
    ELSE IF total <= 14 THEN "moderate"
    ELSE IF total <= 19 THEN "moderately_severe"
    ELSE "severe"

\* C11: the severity a scoring reports and the severity it stores on the
\* session are the band of the total: below 5 minimal, 5 to 9 mild, 10 to 14
\* moderate, 15 to 19 moderately severe, 20 and above severe
C11_SeverityIsBandOfTotal ==
    response.code = "scored" =>
        /\ response.results.severity = SeverityBand(response.results.total_score)
        /\ assessments[response.assessment_id].phq9_severity =
               SeverityBand(assessments[response.assessment_id].phq9_score)

\* C12: an order handed out while the structured-first share of the tally is
\* above 55% is questions_first, one handed out while it is below 45% is
\* phq_first, and no other value than these two is ever handed out
C12_OrderForcedOutsideDeadband ==
    [][\A u \in Users :
          (response'.code = "camera_check" /\ fsession'[u] # fsession[u]) =>
              /\ fsession'[u].assessment_order \in {"phq_first", "questions_first"}
              /\ (TallyTotal > 0 /\ 100 * PhqFirstCount > 55 * TallyTotal) =>
                     fsession'[u].assessment_order = "questions_first"
              /\ (TallyTotal > 0 /\ 100 * PhqFirstCount < 45 * TallyTotal) =>
                     fsession'[u].assessment_order = "phq_first"]_vars

\* the second subject was handed questions_first with the share above 55%
C12_ForcedQuestionsFirst ==
    /\ response.code = "camera_check"
    /\ Counted(1)
    /\ TallyTotal >= BandFrom
    /\ 100 * PhqFirstCount > 55 * TallyTotal
    /\ fsession[2].assessment_order = "questions_first"

NonBlankPosition(cat_num, index) ==
    LET items == settings.categories[cat_num].questions_data.items
    IN CHOOSE k \in 1..Len(items) :
           /\ strip(items[k]) # ""
           /\ Cardinality({j \in 1..k : strip(items[j]) # ""}) = index + 1

\* C14: with randomization off, the pool of a session holds, for every
\* enabled category, one entry per configured question that is not blank
\* and nothing else, in the order of category number and then in-category
\* index, each entry with its category, its index and its question
C14_PoolHoldsEveryQuestionInOrder ==
    (fsession[1].phq_data.present /\ ~settings.randomize_questions) =>
        LET questions == fsession[1].phq_data.questions
        IN /\ \A cat_num \in 1..MaxCategories :
                  Cardinality({i \in 1..Len(questions) :
                                  questions[i].category = cat_num})
                      = IF settings.categories[cat_num].exists
                        THEN Cardinality(
                                 {k \in 1..Len(settings.categories[cat_num]
                                                   .questions_data.items) :
                                     strip(settings.categories[cat_num]
                                               .questions_data.items[k]) # ""})
                        ELSE 0
           /\ \A i, j \in 1..Len(questions) :
                  i < j =>
                      \/ questions[i].category < questions[j].category
                      \/ /\ questions[i].category = questions[j].category
                         /\ questions[i].question_index_in_category
                                < questions[j].question_index_in_category
           /\ \A i \in 1..Len(questions) :
                  LET data == settings.categories[questions[i].category]
                                  .questions_data
                      item == data.items[NonBlankPosition(
                                  questions[i].category,
                                  questions[i].question_index_in_category)]
                  IN questions[i].question =
                         IF data.kind = "comma_text" THEN strip(item) ELSE item

\* a category of three questions, the only one enabled, gave three entries
C14_ThreeQuestionsOfOneCategory ==
    /\ ~settings.randomize_questions
    /\ settings.categories[1].exists
    /\ ~settings.categories[2].exists
    /\ settings.categories[1].questions_data = JsonList(<<"qa", " qb", "qa">>)
    /\ fsession[1].phq_data.present
    /\ Len(fsession[1].phq_data.questions) = 3

\* C15: a completion request of a conversation with n completed exchanges
\* holds the system prompt, the 2n earlier turns in order, and then the new
\* subject turn once: 1 + 2n + 1 messages
C15_RequestReplaysLogThenNewTurnOnce ==
    \A u \in Users :
        (generation[u].state = "streaming" /\ generation[u].attached) =>
            LET chat_session == fsession[u].chat_session
                n == chat_session.exchange_count
                log == chat_session.message_history
            IN /\ Len(generation[u].messages) = 1 + 2 * n + 1
               /\ generation[u].messages =
                      SubSeq(log, 1, 1 + 2 * n) \o <<log[Len(log)]>>

\* C16: whenever no generation is running, the exchange log of a
\* conversation holds the system prompt and whole exchanges only, as many as
\* the exchange count says; a failed generation leaves no subject turn behind
C16_NoDanglingTurnAfterFailure ==
    \A u \in Users :
        (fsession[u].chat_session.present /\ generation[u].state = "idle") =>
            /\ Len(fsession[u].chat_session.message_history)
                   = 1 + 2 * fsession[u].chat_session.exchange_count
            /\ Len(fsession[u].chat_session.conversation_history)
                   = 1 + 2 * fsession[u].chat_session.exchange_count

\* a context as create_chat_session leaves it: the prompt and no turn
FreshContext(chat_session) ==
    /\ chat_session.present
    /\ Len(chat_session.message_history) = 1
    /\ chat_session.exchange_count = 0

\* C17: a step that does not start a conversation leaves the stored prompt
\* of the conversation as it was, a step that edits the configured prompt
\* changes no stored context, and every completion request of a
\* conversation carries the prompt stored when it was started
C17_PromptIsSnapshotOfStart ==
    [][/\ \A u \in Users :
             (/\ fsession[u].chat_session.present
              /\ fsession'[u].chat_session.present
              /\ ~FreshContext(fsession'[u].chat_session)) =>
                 /\ fsession'[u].chat_session.system_prompt
                        = fsession[u].chat_session.system_prompt
                 /\ fsession'[u].chat_session.message_history[1]
                        = fsession[u].chat_session.message_history[1]
       /\ \A u \in Users :
             FreshContext(fsession'[u].chat_session) =>
                 \/ fsession'[u].chat_session = fsession[u].chat_session
                 \/ fsession'[u].chat_session.system_prompt
                        = settings.openquestion_prompt
       /\ settings' # settings => fsession' = fsession /\ generation' = generation
       /\ \A u \in Users :
             (generation'[u].state = "streaming" /\ generation'[u].attached) =>
                 generation'[u].messages[1] =
                     [type |-> "system",
                      content |-> fsession'[u].chat_session.system_prompt]]_vars

\* a request of the second exchange went out with the prompt of the start
\* after the configured prompt was edited
C17_RequestAfterPromptEdit ==
    /\ generation[1].state = "streaming"
    /\ generation[1].attached
    /\ fsession[1].chat_session.exchange_count = 1
    /\ fsession[1].chat_session.system_prompt = "prompt"
    /\ settings.openquestion_prompt = "prompt2"
    /\ generation[1].messages[1].content = "prompt"

\* C18: with the configured prompt absent or empty a start of the
\* conversation fails and leaves the stored contexts as they were; no stored
\* context and no completion request has an empty system prompt
C18_NoStartWithoutPrompt ==
    [][/\ settings.openquestion_prompt = "" =>
             /\ response'.code # "open_questions"
             /\ response'.code = "error_prompt_not_configured" =>
                    fsession' = fsession
       /\ \A u \in Users :
             fsession'[u].chat_session.present =>
                 fsession'[u].chat_session.system_prompt # ""
       /\ \A u \in Users :
             generation'[u].state = "streaming" =>
                 /\ generation'[u].messages # <<>>
                 /\ generation'[u].messages[1].content # ""]_vars

\* a start was refused for want of a prompt and no context exists
C18_StartRefused ==
    /\ settings.openquestion_prompt = ""
    /\ response.code = "error_prompt_not_configured"
    /\ ~fsession[1].chat_session.present

\* the subject and agent entries of an exchange log, in log order
TurnsOf(conversation_history) ==
    SelectSeq(conversation_history, LAMBDA msg : msg.type \in {"human", "ai"})

\* C19: every stored conversation record is followed by one row per subject
\* or agent entry of the log it holds, in log order and with the entry's
\* role and content, and no individual row is stored without its record
C19_RecordAndExchangeRowsAgree ==
    /\ open_responses # <<>> => open_responses[1].kind = "conversation"
    /\ \A k \in 1..Len(open_responses) :
           open_responses[k].kind = "conversation" =>
               LET turns == TurnsOf(open_responses[k].metadata.conversation_history)
               IN /\ k + Len(turns) <= Len(open_responses)
                  /\ \A j \in 1..Len(turns) :
                         /\ open_responses[k + j].kind = "exchange"
                         /\ open_responses[k + j].assessment_id
                                = open_responses[k].assessment_id
                         /\ open_responses[k + j].type = turns[j].type
                         /\ open_responses[k + j].response_text = turns[j].content
                  /\ k + Len(turns) < Len(open_responses) =>
                         open_responses[k + Len(turns) + 1].kind = "conversation"

\* a conversation of one whole exchange was saved
C19_SavedOneExchange ==
    /\ response.code = "conversation_saved"
    /\ Len(open_responses) = 3
    /\ open_responses[1].metadata.total_exchanges = 1
    /\ open_responses[2].type = "human"
    /\ open_responses[3].type = "ai"

\* C20: a step that adds a media row adds one row, reports the capture as
\* saved, and the file the row names is on disk whole at the end of the step;
\* a capture that is reported as failed adds no row
C20_RecordOnlyAfterBytesWritten ==
    [][/\ Len(emotion_data') > Len(emotion_data) =>
              /\ Len(emotion_data') = Len(emotion_data) + 1
              /\ SubSeq(emotion_data', 1, Len(emotion_data)) = emotion_data
              /\ emotion_data'[Len(emotion_data')].file_path \in files'
              /\ response'.code = "media_saved"
       /\ response'.code = "error_upload_failed" =>
              emotion_data' = emotion_data]_vars

\* a capture whose write raised: the reply is a failure, no row and no file
C20_WriteFailedNoRecord ==
    /\ response.code = "error_upload_failed"
    /\ emotion_data = <<>>
    /\ files = {}
    /\ \E u \in Users : fsession[u].assessment_session_id # NoSession

\* C21: every emotion_data row names a file that is on disk
C21_EveryRecordHasFile ==
    \A i \in 1..Len(emotion_data) : emotion_data[i].file_path \in files

\* ----------------------------------------------- media storage on its own
\* One user's sessions with their captures, the validation of the session's
\* files, and deletions of files from outside
MediaNext ==
    \/ start_assessment(1)
    \/ \E discard_session_id \in SessionIds :
           start_fresh_assessment(1, discard_session_id)
    \/ \E media_type \in {"image", "video"}, now \in Clock,
          outcome \in WriteOutcomes :
           capture_emotion_binary(1, "phq9", media_type, now, outcome)
    \/ validate_session_files_request(1)
    \/ \E session_id \in SessionIds, fail_at \in 0..MaxMedia :
           delete_assessment_session(1, session_id, fail_at)
    \/ \E session_id \in SessionIds, media_type \in {"image", "video"},
          now \in Clock :
           external_unlink(storage_file_path(session_id, "phq9", media_type, now))

MediaSpec == Init /\ [][MediaNext]_vars

\* the rows of the session of the user's Flask session whose file is not on
\* disk
MissingRows(u) ==
    {i \in 1..Len(emotion_data) :
        /\ emotion_data[i].assessment_id = fsession[u].assessment_session_id
        /\ emotion_data[i].file_path \notin files}

\* the rows of the session of the user's Flask session
SessionMediaRows(u) ==
    {i \in 1..Len(emotion_data) :
        emotion_data[i].assessment_id = fsession[u].assessment_session_id}

\* C22: a validation step returns a report, not an error; the report counts
\* the session's rows, lists exactly the rows whose file is not on disk, has
\* total = valid + missing, and the step changes no row and no file
C22_ValidateReportsAndChangesNothing ==
    [][(validate_session_files_request(1)
        /\ fsession[1].assessment_session_id # NoSession) =>
           /\ response'.code = "validation"
           /\ response'.validation.total_files = Cardinality(SessionMediaRows(1))
           /\ response'.validation.missing_files = Cardinality(MissingRows(1))
           /\ response'.validation.total_files
                  = response'.validation.valid_files
                    + response'.validation.missing_files
           /\ Len(response'.validation.missing_file_details)
                  = Cardinality(MissingRows(1))
           /\ \A r \in Range(response'.validation.missing_file_details) :
                  \E i \in MissingRows(1) : emotion_data[i] = r
           /\ response'.validation.is_valid <=> MissingRows(1) = {}
           /\ emotion_data' = emotion_data
           /\ files' = files
           /\ assessments' = assessments]_vars

\* a validation of a session with two rows, of which one has lost its file
C22_OneOfTwoMissing ==
    /\ response.code = "validation"
    /\ response.validation.total_files = 2
    /\ response.validation.valid_files = 1
    /\ response.validation.missing_files = 1
    /\ Cardinality(MissingRows(1)) = 1
    /\ Cardinality(SessionMediaRows(1)) = 2

\* the files on disk under the storage path of a session
FilesOfSession(disk, session_id) == {file_path \in disk : file_path[1] = session_id}

\* C23: of a session that was erased, no structured response, no
\* conversation row, no media row and no media file remains
C23_ErasedSessionLeavesNothing ==
    \A i \in 1..Len(assessments) :
        assessments[i].status = "deleted" =>
            /\ \A k \in 1..Len(phq9_responses) : phq9_responses[k].assessment_id # i
            /\ \A k \in 1..Len(open_responses) : open_responses[k].assessment_id # i
            /\ \A k \in 1..Len(emotion_data) : emotion_data[k].assessment_id # i
            /\ FilesOfSession(files, i) = {}

\* ------------------------------------------------- two sessions side by side
\* Two subjects, each with a session of their own, from creation to the end
\* of the conversational module
PairNext ==
    \/ \E u \in {1, 2} : start_assessment(u)
    \/ \E u \in {1, 2} : camera_check(u)
    \/ \E u \in {1, 2} : camera_verified(u)
    \/ \E u \in {1, 2}, consent_agreed \in BOOLEAN :
           submit_consent(u, consent_agreed, fsession[u].assessment_session_id)
    \/ \E u \in {1, 2} : complete_open_questions(u)

PairSpec == Init /\ [][PairNext]_vars

\* the persisted flags of the session of a subject, without the subject
PersistedFlags(u) ==
    [assessments[fsession[u].assessment_session_id] EXCEPT !.user_id = 0]

\* C24: two sessions with the same persisted flags are routed to the same
\* module by a consent submission, and to the same step by the completion of
\* the conversational module
C24_RouteIsFunctionOfPersistedFlags ==
    \A u1 \in {1, 2}, u2 \in {1, 2} :
        (/\ fsession[u1].assessment_session_id # NoSession
         /\ fsession[u2].assessment_session_id # NoSession
         /\ PersistedFlags(u1) = PersistedFlags(u2)) =>
            /\ consent_route(session_order(u1)) = consent_route(session_order(u2))
            /\ open_questions_route(
                   complete_assessment_type(PersistedFlags(u1), "open_questions"),
                   session_order(u1))
               = open_questions_route(
                   complete_assessment_type(PersistedFlags(u2), "open_questions"),
                   session_order(u2))

\* C25: the first module recorded on the session a subject is in is the
\* module of the order the balancer handed out for it at the camera check
C25_FirstModuleIsAssignedModule ==
    \A u \in Users :
        LET id == FindAssessment(assessments,
                                 fsession[u].assessment_session_id, u)
        IN (/\ id # NoSession
            /\ assessments[id].status = "in_progress"
            /\ assessments[id].first_assessment_type # None) =>
               /\ fsession[u].assessment_order # None
               /\ assessments[id].first_assessment_type
                      = (IF fsession[u].assessment_order = "phq_first"
                         THEN "phq9" ELSE "open_questions")

\* C26: a consent submission without the acknowledgement is answered with
\* the error that the subject must agree, and changes no row, no Flask
\* session and nothing else that is stored
C26_UnacknowledgedConsentRejected ==
    [][\A u \in {1, 2} :
          submit_consent(u, FALSE, fsession[u].assessment_session_id) =>
              /\ response'.code = "error_must_agree"
              /\ assessments' = assessments
              /\ fsession' = fsession
              /\ phq9_responses' = phq9_responses
              /\ open_responses' = open_responses]_vars

\* the subject was told to agree, on a session whose camera is verified and
\* whose consent and first module are still not recorded
C26_RejectedOnOpenSession ==
    /\ response.code = "error_must_agree"
    /\ \E u \in {1, 2} :
          LET id == FindAssessment(assessments,
                                   fsession[u].assessment_session_id, u)
          IN /\ id # NoSession
             /\ assessments[id].camera_verified
             /\ ~assessments[id].consent_agreed
             /\ assessments[id].first_assessment_type = None

\* C27: a structured response is stored only for a session whose consent and
\* camera verification are recorded, that is, whose structured module could
\* have been started
C27_NoResponseBeforeModuleActive ==
    \A k \in 1..Len(phq9_responses) :
        /\ assessments[phq9_responses[k].assessment_id].consent_agreed
        /\ assessments[phq9_responses[k].assessment_id].camera_verified

\* --------------------------------------- the balancer with failing queries
\* The two subjects of BalanceSpec, with camera checks during which the
\* count queries raise
FallbackNext ==
    \/ BalanceNext
    \/ camera_check_on_error(1)
    \/ /\ Counted(1)
       /\ camera_check_on_error(2)

FallbackSpec == BalanceInit /\ [][FallbackNext]_vars

\* C28: a camera check during which the count queries raise still shows the
\* camera page, hands out one of the two orders, and changes no session row
C28_FailedCountFallsBackToRandom ==
    [][\A u \in {1, 2} :
          camera_check_on_error(u) =>
              /\ response'.code = "camera_check"
              /\ fsession'[u].assessment_order \in {"phq_first", "questions_first"}
              /\ assessments' = assessments]_vars

\* the second subject was handed phq_first while the structured-first share
\* is above 55%: the order that the tally would not have allowed
C28_OrderAgainstTheTally ==
    /\ response.code = "camera_check"
    /\ Counted(1)
    /\ ~Counted(2)
    /\ 100 * PhqFirstCount > 55 * TallyTotal
    /\ fsession[2].assessment_order = "phq_first"

\* the exchange log starts with the system entry and then alternates subject
\* turn and agent turn
Alternates(log) ==
    /\ log # <<>>
    /\ log[1].type = "system"
    /\ \A i \in 2..Len(log) :
           log[i].type = (IF i % 2 = 0 THEN "human" ELSE "ai")

\* the subject turns of the log that are followed by their agent turn
CompletedPairs(log) ==
    Cardinality({i \in 1..(Len(log) - 1) :
                    log[i].type = "human" /\ log[i + 1].type = "ai"})

\* C29: after every step the exchange log of a conversation alternates
\* subject and agent turns after the system entry and the exchange count is
\* the number of completed pairs in it, and a step of a conversation that
\* goes on only appends to its log
C29_LogAppendOnlyAlternatingCounted ==
    [][\A u \in Users :
          /\ fsession'[u].chat_session.present =>
                 /\ Alternates(fsession'[u].chat_session.conversation_history)
                 /\ fsession'[u].chat_session.exchange_count
                        = CompletedPairs(fsession'[u].chat_session.conversation_history)
          /\ (/\ fsession[u].chat_session.present
              /\ fsession'[u].chat_session.present
              /\ ~FreshContext(fsession'[u].chat_session)) =>
                 /\ Len(fsession'[u].chat_session.conversation_history)
                        >= Len(fsession[u].chat_session.conversation_history)
                 /\ SubSeq(fsession'[u].chat_session.conversation_history, 1,
                           Len(fsession[u].chat_session.conversation_history))
                        = fsession[u].chat_session.conversation_history]_vars

\* the questions of a category in the pool of the first subject, in pool order
PoolQuestionsOf(cat_num) ==
    LET entries == SelectSeq(fsession[1].phq_data.questions,
                             LAMBDA entry : entry.category = cat_num)
    IN [k \in 1..Len(entries) |-> entries[k].question]

\* the pieces of a stored value between its commas, stripped, without the
\* blank ones
CommaPieces(questions_data) ==
    LET pieces == IF questions_data.kind = "comma_text"
                  THEN questions_data.items
                  ELSE split(questions_data.items[1])
    IN SelectSeq([i \in 1..Len(pieces) |-> strip(pieces[i])],
                 LAMBDA q : q # "")

\* the enabled categories whose stored value is there and is no JSON list
MalformedCategories ==
    {cat_num \in 1..MaxCategories :
        /\ settings.categories[cat_num].exists
        /\ settings.categories[cat_num].questions_data.kind
               \in {"json_value", "comma_text"}}

\* C30 as stated: the pool holds, for a category whose value is no JSON
\* list, the comma separated pieces of the value (one piece when it has no
\* comma)
C30_CommaSeparatedThenSingleString ==
    (fsession[1].phq_data.present /\ ~settings.randomize_questions) =>
        \A cat_num \in MalformedCategories :
            PoolQuestionsOf(cat_num)
                = CommaPieces(settings.categories[cat_num].questions_data)

\* C30 amended: the pool holds, for a category whose value is not JSON, the
\* comma separated pieces of the value that are not blank, and for a category
\* whose value is JSON but no list the whole value as one question; such a
\* category is left out only when it has no piece that is not blank, and the
\* pool is built, with the questions of the JSON lists of the other
\* categories, whenever some category has a question
C30_NotJsonSplitJsonValueWhole ==
    /\ (fsession[1].phq_data.present /\ ~settings.randomize_questions) =>
           /\ \A cat_num \in MalformedCategories :
                  PoolQuestionsOf(cat_num)
                      = (IF settings.categories[cat_num].questions_data.kind
                                = "comma_text"
                         THEN CommaPieces(settings.categories[cat_num].questions_data)
                         ELSE settings.categories[cat_num].questions_data.items)
           /\ \A cat_num \in 1..MaxCategories :
                  (/\ settings.categories[cat_num].exists
                   /\ settings.categories[cat_num].questions_data.kind = "json_list") =>
                       PoolQuestionsOf(cat_num)
                           = SelectSeq(settings.categories[cat_num].questions_data.items,
                                       LAMBDA q : strip(q) # "")
    /\ response.code = "error_setup" =>
           \A cat_num \in 1..MaxCategories :
               settings.categories[cat_num].exists =>
                   /\ settings.categories[cat_num].questions_data.kind # "json_value"
                   /\ \A k \in 1..Len(settings.categories[cat_num].questions_data.items) :
                          strip(settings.categories[cat_num].questions_data.items[k]) = ""

\* a pool built from a JSON string with a comma in the first category and a
\* JSON list in the second: the string is one question, the list is kept
C30_JsonStringKeptWhole ==
    /\ ~settings.randomize_questions
    /\ settings.categories[1].exists
    /\ settings.categories[1].questions_data = JsonValue(QuotedPair)
    /\ settings.categories[2].exists
    /\ settings.categories[2].questions_data = JsonList(<<"qa">>)
    /\ fsession[1].phq_data.present
    /\ PoolQuestionsOf(1) = <<QuotedPair>>
    /\ PoolQuestionsOf(2) = <<"qa">>

\* C31: after a scoring, the total and the severity stored on the session
\* are the total and the severity of the result that was returned
C31_StoredScoreIsReturnedScore ==
    response.code = "scored" =>
        /\ assessments[response.assessment_id].phq9_score
               = response.results.total_score
        /\ assessments[response.assessment_id].phq9_severity
               = response.results.severity


\* the stored responses of a session
StoredResponses(rows, assessment_id) ==
    SelectSeq(rows, LAMBDA r : r.assessment_id = assessment_id)

\* a session both of whose modules are completed
Completed(i) ==
    /\ assessments[i].phq9_completed
    /\ assessments[i].open_questions_completed
    /\ assessments[i].completed_at

C33_OrderAssignedOnce ==
    [][/\ \A u \in Users :
             (/\ fsession[u].assessment_order # None
              /\ fsession'[u].assessment_session_id
                     = fsession[u].assessment_session_id)
                 => fsession'[u].assessment_order = fsession[u].assessment_order
       /\ \A i \in SessionRows :
             /\ assessments[i].assessment_order # None
                    => assessments'[i].assessment_order
                           = assessments[i].assessment_order
             /\ assessments[i].first_assessment_type # None
                    => assessments'[i].first_assessment_type
                           = assessments[i].first_assessment_type]_vars


\* ------------------------------------- question pages and late submissions
\* a session of the first subject, with the questions drawn in random order
DisplayInit ==
    /\ assessments = <<NewAssessment(1)>>
    /\ phq9_responses = <<>>
    /\ open_responses = <<>>
    /\ emotion_data = <<>>
    /\ files = {}
    /\ fsession = [u \in Users |->
                      IF u = 1
                      THEN [NewFlaskSession EXCEPT !.assessment_session_id = 1]
                      ELSE NewFlaskSession]
    /\ generation = [u \in Users |-> Idle]
    /\ response = Reply("none")
    /\ workers = [w \in Workers |-> IdleWorker]
    /\ page = [u \in Users |-> NoPage]
    /\ submitted = <<>>
    /\ settings = [DefaultSettings EXCEPT !.randomize_questions = TRUE]

DisplayNext ==
    \/ phq9_assessment(1)
    \/ \E question_index \in QuestionIndexes : phq9_question(1, question_index)
    \/ \E question_index \in QuestionIndexes,
          response_value \in {scale_min, scale_max} :
           phq9_submit(1, question_index, response_value, NoTime)

DisplaySpec == DisplayInit /\ [][DisplayNext]_vars

\* C34: a submission for the question page on display is saved under the
\* category, the in-category index and the text of the question on that page
C34_SavedUnderDisplayedQuestion ==
    [][\A question_index \in QuestionIndexes,
          response_value \in {scale_min, scale_max} :
          (/\ page[1].present
           /\ page[1].question_index = question_index
           /\ phq9_submit(1, question_index, response_value, NoTime)
           /\ phq9_responses' # phq9_responses)
              => \E i \in 1..Len(phq9_responses') :
                    /\ phq9_responses'[i].assessment_id = 1
                    /\ phq9_responses'[i].question_number
                           = page[1].question.category
                    /\ phq9_responses'[i].question_index_in_category
                           = page[1].question.question_index_in_category
                    /\ phq9_responses'[i].question_text
                           = page[1].question.question
                    /\ phq9_responses'[i].response_value = response_value]_vars


\* C35: the start step of the conversational module, taken while the
\* conversation holds exchanges, leaves its log and its exchange count as
\* they were
C35_RestartKeepsConversation ==
    [][\A u \in Users :
          (/\ fsession[u].chat_session.present
           /\ fsession[u].chat_session.exchange_count > 0
           /\ open_questions_assessment(u)) =>
              /\ fsession'[u].chat_session.conversation_history
                     = fsession[u].chat_session.conversation_history
              /\ fsession'[u].chat_session.exchange_count
                     = fsession[u].chat_session.exchange_count]_vars


\* the stored conversation records of a session
ConversationRecords(assessment_id) ==
    {k \in 1..Len(open_responses) :
        /\ open_responses[k].assessment_id = assessment_id
        /\ open_responses[k].kind = "conversation"}

\* the stored individual exchange rows of a session
ExchangeRows(assessment_id) ==
    {k \in 1..Len(open_responses) :
        /\ open_responses[k].assessment_id = assessment_id
        /\ open_responses[k].kind = "exchange"}

\* C36: however often the conversation of a session is saved, the session
\* has at most one conversation record, and with it one individual row per
\* subject or agent entry of the log that record holds
C36_ConversationSavedOnce ==
    \A i \in SessionRows :
        /\ Cardinality(ConversationRecords(i)) <= 1
        /\ \A k \in ConversationRecords(i) :
               Cardinality(ExchangeRows(i))
                   = Len(TurnsOf(open_responses[k].metadata.conversation_history))


\* C37: a save of the conversation of an existing session succeeds whatever
\* the configuration has become since the conversation was started
C37_SaveSucceedsAfterConfigurationChange ==
    [][\A u \in Users :
          (/\ fsession[u].chat_session.present
           /\ FindAssessment(assessments, fsession[u].assessment_session_id, u)
                  # NoSession
           /\ save_conversation_request(u)) =>
              response'.code = "conversation_saved"]_vars


\* C38: no two media rows name the same storage path
C38_DistinctSavesDistinctPaths ==
    \A i, j \in 1..Len(emotion_data) :
        i # j => emotion_data[i].file_path # emotion_data[j].file_path


\* the rows of the given role among the first j individual rows that follow
\* the conversation record at k
RowsOfRole(k, j, type) ==
    {m \in 1..j : open_responses[k + m].type = type}

\* C39: among the individual rows of a stored conversation, the n-th subject
\* row and the n-th agent row both carry exchange number n, so the two rows
\* of an exchange share their number and the numbers run from 1 in log order
C39_ExchangeRowsNumberedByExchange ==
    \A k \in 1..Len(open_responses) :
        open_responses[k].kind = "conversation" =>
            LET turns == TurnsOf(open_responses[k].metadata.conversation_history)
            IN \A j \in 1..Len(turns) :
                   k + j <= Len(open_responses) =>
                       open_responses[k + j].exchange
                           = Cardinality(RowsOfRole(k, j, open_responses[k + j].type))


====
